---- MODULE Spec2Model ----
(***************************************************************************)
(* Model of the unread-email triage pipeline of src/gmail/autolabel.py:    *)
(* GmailService.process_and_label_emails and the methods it calls          *)
(* (get_unread_emails, read_email, mark_email_as_read, send_to_ollama,     *)
(* label_email), plus the body normalisation of read_email and the tool    *)
(* handler handle_call_tool of the server.                                 *)
(*                                                                         *)
(* The mailbox client and the oracle are external: every call to them is a *)
(* nondeterministic choice among the outcomes the code distinguishes       *)
(* (success, HttpError, any other exception).                              *)
(***************************************************************************)
EXTENDS Integers, Sequences, FiniteSets, TLC

\* ------------------------------------------------------------------ bounds

\* Largest number of entries in the page get_unread_emails returns
\* (the code asks for maxResults=20).
MaxUnread == 2

\* Longest decoded body, in characters, of the body-normalisation runs.
MaxBodyLen == 7

\* Largest number of tool invocations a server session handles.
MaxToolCalls == 2

\* The word cap of read_email (10000 in the source), scaled down.
WordCap == 3

\* ------------------------------------------------------------- value sets

Ids == 1..MaxUnread

\* email.get("id") of an entry without an id
NoId == 0

\* label tokens the oracle may answer with; only some name a mailbox label
OracleLabels == {"Review", "Ads"}

\* names of the labels the mailbox has (labels().list())
MailboxLabels == {"Review"}

\* Python False, the default of response.get(...).get("content", False)
FalseLabel == "<False>"

\* exceptions other than HttpError that a step can raise
ClientError == "Exception"
DecodeError == "DecodeError"
AttributeError == "AttributeError"
UnboundLocalError == "UnboundLocalError"

VARIABLES
  entry,          \* which method the caller invoked: "none", "triage", "read_email"
  pc,             \* position in the running method
  unread_emails,  \* value returned by get_unread_emails
  idx,            \* number of entries of unread_emails the for loop has taken
  email_id,       \* current email_id
  email_content,  \* value returned by read_email: "none", "metadata", "error_str"
  response,       \* value returned by send_to_ollama for the current message
  label,          \* label extracted from response
  label_response, \* local label_response of process_and_label_emails
  results,        \* local results list
  exc,            \* exception raised in the run, "none" if none
  ret,            \* what the invoked method gave its caller
  mailboxUnread,  \* ids carrying the UNREAD label in the mailbox
  mailboxLabels,  \* <<id, label>> pairs added by messages().modify
  calls,          \* history of the external calls and decode steps, in order
  body,           \* local body of read_email after extraction: None or a text
  content,        \* email_metadata['content']
  http,           \* outcome of the HTTP request send_to_ollama made last
  mime_message,   \* the parsed message read_email works on
  subject,        \* email_metadata['subject']
  tool,           \* the tool invocation handle_call_tool is serving
  mailboxTrash,   \* ids moved to the trash
  mailboxSent,    \* number of messages sent
  marked          \* per id, how many mark-read calls the mailbox has carried out

vars == <<entry, pc, unread_emails, idx, email_id, email_content, response, label,
          label_response, results, exc, ret, mailboxUnread, mailboxLabels, calls,
          body, content, http, mime_message, subject, tool, mailboxTrash,
          mailboxSent, marked>>

mimeVars == <<mime_message, subject>>
toolVars == <<tool, mailboxTrash, mailboxSent, marked>>
auxVars == <<http, mimeVars, toolVars>>

pipeVars == <<entry, unread_emails, idx, email_id, email_content, response, label,
              label_response, results, exc, ret, mailboxUnread, mailboxLabels, calls>>

\* ------------------------------------------------------------ Python values

\* truth value of a label: False and "" are falsy (`if label:`)
TruthyEmptyToo(l) == l # FalseLabel
Truthy(l) == l # FalseLabel /\ l # ""

NoUnread == [kind |-> "none", items |-> <<>>]
UnreadList(items) == [kind |-> "list", items |-> items]
\* the string get_unread_emails returns on HttpError
UnreadErrorStr == [kind |-> "str", items |-> <<>>]

\* `not unread_emails`: an empty list is falsy, the error string is not
IsFalsyUnreadNever(u) == FALSE
IsFalsyUnread(u) == u.kind = "list" /\ u.items = <<>>

NoResponse == [kind |-> "none", message |-> FALSE, content |-> FalseLabel]
\* status 200: the JSON body; message absent, or present with or without content
JsonResponse(hasMessage, c) == [kind |-> "json", message |-> hasMessage, content |-> c]
\* {"is_important": False, "error": ...}
ErrorResponse(why) == [kind |-> why, message |-> FALSE, content |-> FalseLabel]

OracleResponses ==
  {JsonResponse(TRUE, c) : c \in OracleLabels \cup {"", FalseLabel}}
    \cup {JsonResponse(FALSE, FalseLabel)}
    \cup {ErrorResponse("status_error"), ErrorResponse("exception_error")}

\* the HTTP exchange of send_to_ollama: the request raised, or a response came
\* back with a status and a body
NoHttp == [raised |-> FALSE, status |-> 0, body |-> NoResponse]
HttpResponse(st, b) == [raised |-> FALSE, status |-> st, body |-> b]
HttpRaised == [raised |-> TRUE, status |-> 0, body |-> NoResponse]
\* a body response.json() cannot parse
NotJson == [kind |-> "not_json", message |-> FALSE, content |-> FalseLabel]

HttpOutcomes ==
  {HttpResponse(200, JsonResponse(TRUE, c)) : c \in OracleLabels \cup {"", FalseLabel}}
    \cup {HttpResponse(200, JsonResponse(FALSE, FalseLabel)),
          HttpResponse(200, NotJson),
          HttpResponse(500, JsonResponse(TRUE, "Review")),
          HttpRaised}

\* send_to_ollama: the parsed body on status 200, else the error dict; every
\* exception (of the request, or of response.json()) gives the error dict
send_to_ollama_AnyStatus(h) ==
  IF h.raised \/ h.body.kind # "json" THEN ErrorResponse("exception_error") ELSE h.body
send_to_ollama(h) ==
  IF h.raised THEN ErrorResponse("exception_error")
  ELSE IF h.status = 200
    THEN IF h.body.kind = "json" THEN h.body ELSE ErrorResponse("exception_error")
    ELSE ErrorResponse("status_error")

\* parsed message and subject before read_email has any
NoMessage ==
  [multipart |-> FALSE, ctype |-> "", payload |-> [utf8 |-> TRUE, text |-> <<>>],
   parts |-> <<>>, subject |-> [kind |-> "plain", raw |-> <<>>, text |-> <<>>]]
NoSubject == <<>>

\* Python None as the value of arguments.get(key): the key is absent
None == "<None>"
NoneId == -1

\* the arguments of a tool invocation: None, or a dict read with .get(); an
\* email_id of NoId is the empty string
Arguments(e, l, r, sj, m) ==
  [none |-> FALSE, email_id |-> e, label |-> l, recipient_id |-> r, subject |-> sj,
   message |-> m]
NoArguments ==
  [none |-> TRUE, email_id |-> NoneId, label |-> None, recipient_id |-> None,
   subject |-> None, message |-> None]

\* no tool invocation
NoTool == [name |-> "none", arguments |-> NoArguments, n |-> 0]

Unbound == [kind |-> "unbound", id |-> NoId, label |-> ""]
LabelResponse(kind, id, l) == [kind |-> kind, id |-> id, label |-> l]

NoReturn == [kind |-> "none", value |-> <<>>]
ReturnList(rs) == [kind |-> "list", value |-> rs]
ReturnOther(kind) == [kind |-> kind, value |-> <<>>]

Call(op, id, res) == [op |-> op, id |-> id, res |-> res]

\* sequences over S of length at most n with no id occurring twice
RECURSIVE SeqsUpTo(_, _)
SeqsUpTo(S, n) ==
  IF n = 0 THEN {<<>>}
  ELSE LET shorter == SeqsUpTo(S, n - 1)
       IN shorter \cup {Append(s, x) : s \in {t \in shorter : Len(t) = n - 1}, x \in S}

DistinctIds(s) ==
  \A i, j \in DOMAIN s : (i # j /\ s[i] # NoId) => s[i] # s[j]

\* the pages messages().list can return: message ids are unique in a mailbox
UnreadPages == {s \in SeqsUpTo(Ids \cup {NoId}, MaxUnread) : DistinctIds(s)}

\* ---------------------------------------------------------------- read_email

\* statement order of read_email: fetch raw, decode, mark as read
ReadEmailOrderMarkFirst == <<"fetch", "mark", "decode">>
ReadEmailOrder == <<"fetch", "decode", "mark">>

StepAfter(step) ==
  LET k == CHOOSE i \in DOMAIN ReadEmailOrder : ReadEmailOrder[i] = step
  IN IF k = Len(ReadEmailOrder) THEN "read_return" ELSE ReadEmailOrder[k + 1]

Raise(e) ==
  /\ exc' = e
  /\ pc' = "except"

\* msg = self.service.messages().get(userId="me", id=email_id, format='raw').execute()
Fetch ==
  /\ pc = "fetch"
  /\ \E outcome \in {"ok", "http_error", "exception"} :
       /\ calls' = Append(calls, Call("fetch", email_id, outcome))
       /\ CASE outcome = "ok" ->
                 /\ pc' = StepAfter("fetch")
                 /\ UNCHANGED <<exc, email_content>>
            [] outcome = "http_error" ->
                 \* except HttpError: return f"An HttpError occurred: ..."
                 /\ email_content' = "error_str"
                 /\ pc' = "read_return"
                 /\ UNCHANGED exc
            [] outcome = "exception" ->
                 /\ Raise(ClientError)
                 /\ UNCHANGED email_content
  /\ UNCHANGED <<entry, unread_emails, idx, email_id, response, label, label_response,
                 results, ret, mailboxUnread, mailboxLabels, body, content, auxVars>>

\* urlsafe_b64decode, message_from_bytes, body extraction and decoding, header
\* decoding: any failure is an exception that is no HttpError
Decode ==
  /\ pc = "decode"
  /\ \E outcome \in {"ok", "exception"} :
       /\ calls' = Append(calls, Call("decode", email_id, outcome))
       /\ IF outcome = "ok"
            THEN /\ email_content' = "metadata"
                 /\ pc' = StepAfter("decode")
                 /\ UNCHANGED exc
            ELSE /\ Raise(DecodeError)
                 /\ UNCHANGED email_content
  /\ UNCHANGED <<entry, unread_emails, idx, email_id, response, label, label_response,
                 results, ret, mailboxUnread, mailboxLabels, body, content, auxVars>>

\* mark_email_as_read: messages().modify(id, body={'removeLabelIds': ['UNREAD']})
\* and what it returns: a text on success and on HttpError, else the exception
MarkOutcomes == {"ok", "http_error", "exception"}

mark_email_as_read(id, outcome) ==
  /\ calls' = Append(calls, Call("mark_read", id, outcome))
  /\ IF outcome = "ok"
       THEN /\ mailboxUnread' = mailboxUnread \ {id}
            /\ marked' = [marked EXCEPT ![id] = @ + 1]
       ELSE UNCHANGED <<mailboxUnread, marked>>

\* what read_email goes on with after the mark-read call returned: the call is a
\* bare `await`, its value is dropped
AfterMarkFromResult(metadata, outcome) ==
  IF outcome = "http_error" THEN "error_str" ELSE metadata
AfterMark(metadata, outcome) == metadata

\* await self.mark_email_as_read(email_id): its result is not looked at
MarkRead ==
  /\ pc = "mark"
  /\ \E outcome \in MarkOutcomes :
       /\ mark_email_as_read(email_id, outcome)
       /\ IF outcome = "exception"
            THEN /\ Raise(ClientError)
                 /\ UNCHANGED email_content
            ELSE /\ email_content' = AfterMark(email_content, outcome)
                 /\ pc' = StepAfter("mark")
                 /\ UNCHANGED exc
  /\ UNCHANGED <<entry, unread_emails, idx, email_id, response, label,
                 label_response, results, ret, mailboxLabels, body, content,
                 http, mimeVars, tool, mailboxTrash, mailboxSent>>

\* return of read_email, to the tool handler or to the triage loop
ReadEmailReturn ==
  /\ pc = "read_return"
  /\ IF entry = "read_email"
       THEN /\ ret' = ReturnOther(email_content)
            /\ pc' = "done"
       ELSE /\ pc' = "check_content"
            /\ UNCHANGED ret
  /\ UNCHANGED <<entry, unread_emails, idx, email_id, email_content, response, label,
                 label_response, results, exc, mailboxUnread, mailboxLabels, calls,
                 body, content, auxVars>>

\* ------------------------------------------- read_email: body normalisation

Char == {"a", "b", " "}
Whitespace == {" "}

\* body = None
NoBody == [none |-> TRUE, text |-> <<>>]
Text(t) == [none |-> FALSE, text |-> t]

RECURSIVE TextsUpTo(_)
TextsUpTo(n) ==
  IF n = 0 THEN {<<>>}
  ELSE LET shorter == TextsUpTo(n - 1)
       IN shorter \cup {Append(t, c) : t \in {u \in shorter : Len(u) = n - 1}, c \in Char}

DecodedBodies == {NoBody} \cup {Text(t) : t \in TextsUpTo(MaxBodyLen)}

\* "THIS IS SPAM"
Sentinel == <<"T", "H", "I", "S", " ", "I", "S", " ", "S", "P", "A", "M">>

\* str.split(): the maximal runs of non-whitespace characters, in order
RECURSIVE SplitFrom(_, _, _)
SplitFrom(t, i, cur) ==
  IF i > Len(t)
    THEN IF cur = <<>> THEN <<>> ELSE <<cur>>
    ELSE IF t[i] \in Whitespace
      THEN IF cur = <<>> THEN SplitFrom(t, i + 1, <<>>)
                         ELSE <<cur>> \o SplitFrom(t, i + 1, <<>>)
      ELSE SplitFrom(t, i + 1, Append(cur, t[i]))

Split(t) == SplitFrom(t, 1, <<>>)

\* ' '.join(words)
RECURSIVE Join(_)
Join(words) ==
  IF words = <<>> THEN <<>>
  ELSE IF Len(words) = 1 THEN words[1]
  ELSE words[1] \o <<" ">> \o Join(Tail(words))

\* count_words: 0 for an empty text, else len(text.split())
count_words(t) == IF t = <<>> THEN 0 ELSE Len(Split(t))

\* if not body: body = "THIS IS SPAM"
OrSentinel(b) == IF b.none \/ b.text = <<>> THEN Sentinel ELSE b.text

\* if self.count_words(body) > 10000: body = ' '.join(body.split()[:10000])
TruncateOneShort(t) ==
  IF count_words(t) >= WordCap THEN Join(SubSeq(Split(t), 1, WordCap - 1)) ELSE t
Truncate(t) ==
  IF count_words(t) > WordCap THEN Join(SubSeq(Split(t), 1, WordCap)) ELSE t

\* email_metadata['content'] = body, after the sentinel and the word cap
NormalizeBody ==
  /\ pc = "body"
  /\ content' = Truncate(OrSentinel(body))
  /\ pc' = "body_done"
  /\ UNCHANGED <<pipeVars, body, auxVars>>

\* ---------------------------------------- read_email: parsing and extraction

UnicodeDecodeError == "UnicodeDecodeError"
LookupError == "LookupError"

\* payload bytes: valid UTF-8 or not, with the text they decode to (as UTF-8 when
\* valid, else as latin-1, which maps every byte)
Bytes(valid, t) == [utf8 |-> valid, text |-> t]

Payloads == {Bytes(TRUE, <<"a", " ", "b">>), Bytes(TRUE, <<>>), Bytes(FALSE, <<"b">>)}

\* a Subject header: a plain string, or encoded words whose bytes decode in the
\* charset they name, name an unknown charset, or are invalid in their charset
Header(kind, raw, t) == [kind |-> kind, raw |-> raw, text |-> t]

Headers ==
  {Header("plain", <<"a">>, <<"a">>),
   Header("encoded", <<"=", "?", "b">>, <<"b">>),
   Header("unknown_charset", <<"=", "?", "x">>, <<>>),
   Header("invalid_bytes", <<"=", "?", "y">>, <<>>)}

Part(ctype, payload) == [ctype |-> ctype, payload |-> payload]

\* part lists of a multipart message
PartLists ==
  LET ps == {Part(c, b) : c \in {"text/plain", "text/html"},
                          b \in {Bytes(TRUE, <<"a", " ", "b">>), Bytes(FALSE, <<"b">>)}}
  IN {<<p>> : p \in ps} \cup {<<p, q>> : p \in ps, q \in ps}

\* what message_from_bytes gives: a message with a sole body, or a multipart
\* message, whose own content type is multipart/* and whose payload is its parts
Message(multi, ctype, payload, parts, subj) ==
  [multipart |-> multi, ctype |-> ctype, payload |-> payload, parts |-> parts,
   subject |-> subj]

MimeMessages ==
  {Message(FALSE, c, b, <<>>, h) :
     c \in {"text/plain", "text/html"}, b \in Payloads, h \in Headers}
    \cup {Message(TRUE, "multipart/mixed", Bytes(TRUE, <<>>), ps, h) :
            ps \in PartLists, h \in Headers}

\* mime_message.walk(): the message itself first, then its parts
Walk(m) == <<Part(m.ctype, m.payload)>> \o m.parts

Raised(e) == [raised |-> e, value |-> <<>>, none |-> TRUE]
Returned(t) == [raised |-> "none", value |-> t, none |-> FALSE]
ReturnedNone == [raised |-> "none", value |-> <<>>, none |-> TRUE]

\* bytes.decode('utf-8')
DecodeUtf8(b) == IF b.utf8 THEN Returned(b.text) ELSE Raised(UnicodeDecodeError)

\* body extraction of read_email; in the multipart branch the loop over walk()
\* ends at its unconditional break after the first part, and the text/plain branch
\* decodes the payload of mime_message, not of the part
ExtractBody(m) ==
  IF m.multipart
    THEN LET part == Walk(m)[1]
         IN IF part.ctype = "text/plain"
              THEN Raised(AttributeError)   \* get_payload(decode=True) is None
              ELSE ReturnedNone
    ELSE DecodeUtf8(m.payload)

\* decode_mime_header: bytes parts are decoded with the charset they name
decode_mime_header(h) ==
  CASE h.kind = "plain" -> Returned(h.raw)
    [] h.kind = "encoded" -> Returned(h.text)
    [] h.kind = "unknown_charset" -> Raised(LookupError)
    [] h.kind = "invalid_bytes" -> Raised(UnicodeDecodeError)

\* decoded_data = urlsafe_b64decode(msg['raw']); message_from_bytes(decoded_data)
ParseMessage ==
  /\ pc = "decode"
  /\ \/ \E m \in MimeMessages :
          /\ mime_message' = m
          /\ pc' = "extract_body"
          /\ UNCHANGED <<exc, calls>>
     \/ \* msg has no 'raw', or it is no base64
        /\ calls' = Append(calls, Call("decode", email_id, "exception"))
        /\ Raise(DecodeError)
        /\ UNCHANGED mime_message
  /\ UNCHANGED <<entry, unread_emails, idx, email_id, email_content, response, label,
                 label_response, results, ret, mailboxUnread, mailboxLabels,
                 body, content, http, subject, toolVars>>

\* body = None; if mime_message.is_multipart(): ... else: ...
ExtractBodyStep ==
  /\ pc = "extract_body"
  /\ LET r == ExtractBody(mime_message)
     IN IF r.raised # "none"
          THEN /\ calls' = Append(calls, Call("decode", email_id, "exception"))
               /\ Raise(r.raised)
               /\ UNCHANGED body
          ELSE /\ body' = IF r.none THEN NoBody ELSE Text(r.value)
               /\ pc' = "body"
               /\ UNCHANGED <<exc, calls>>
  /\ UNCHANGED <<entry, unread_emails, idx, email_id, email_content, response, label,
                 label_response, results, ret, mailboxUnread, mailboxLabels,
                 content, auxVars>>

\* email_metadata['subject'] = decode_mime_header(mime_message.get('subject', ''))
\* and the other headers, which are taken as they are
DecodeSubject ==
  /\ pc = "body_done"
  /\ LET r == decode_mime_header(mime_message.subject)
     IN IF r.raised # "none"
          THEN /\ calls' = Append(calls, Call("decode", email_id, "exception"))
               /\ Raise(r.raised)
               /\ UNCHANGED <<subject, email_content>>
          ELSE /\ subject' = r.value
               /\ email_content' = "metadata"
               /\ calls' = Append(calls, Call("decode", email_id, "ok"))
               /\ pc' = StepAfter("decode")
               /\ UNCHANGED exc
  /\ UNCHANGED <<entry, unread_emails, idx, email_id, response, label,
                 label_response, results, ret, mailboxUnread, mailboxLabels,
                 body, content, http, mime_message, toolVars>>

\* ------------------------------------------------------------ the callers

\* explicit(): results = await gmail_service.process_and_label_emails()
CallProcessAndLabel ==
  /\ pc = "idle"
  /\ entry' = "triage"
  /\ pc' = "get_unread"
  /\ UNCHANGED <<unread_emails, idx, email_id, email_content, response, label,
                 label_response, results, exc, ret, mailboxUnread, mailboxLabels, calls,
                 body, content, auxVars>>

\* handle_call_tool, name == "read-email": await gmail_service.read_email(email_id)
CallReadEmail ==
  /\ pc = "idle"
  /\ \E id \in Ids :
       /\ entry' = "read_email"
       /\ email_id' = id
       /\ pc' = "fetch"
  /\ UNCHANGED <<unread_emails, idx, email_content, response, label, label_response,
                 results, exc, ret, mailboxUnread, mailboxLabels, calls, body, content, auxVars>>

\* ------------------------------------------------- process_and_label_emails

\* unread_emails = await self.get_unread_emails()
GetUnread ==
  /\ pc = "get_unread"
  /\ \/ \E page \in UnreadPages :
          /\ calls' = Append(calls, Call("list_unread", NoId, "ok"))
          /\ unread_emails' = UnreadList(page)
          /\ pc' = "check_unread"
          /\ UNCHANGED exc
     \/ \* except HttpError: return f"An HttpError occurred: ..."
        /\ calls' = Append(calls, Call("list_unread", NoId, "http_error"))
        /\ unread_emails' = UnreadErrorStr
        /\ pc' = "check_unread"
        /\ UNCHANGED exc
     \/ /\ calls' = Append(calls, Call("list_unread", NoId, "exception"))
        /\ Raise(ClientError)
        /\ UNCHANGED unread_emails
  /\ UNCHANGED <<entry, idx, email_id, email_content, response, label, label_response,
                 results, ret, mailboxUnread, mailboxLabels, body, content, auxVars>>

\* if not unread_emails: return []    else: results = []
CheckUnread ==
  /\ pc = "check_unread"
  /\ IF IsFalsyUnread(unread_emails)
       THEN /\ ret' = ReturnList(<<>>)
            /\ pc' = "done"
       ELSE /\ pc' = "loop"
            /\ UNCHANGED ret
  /\ UNCHANGED <<entry, unread_emails, idx, email_id, email_content, response, label,
                 label_response, results, exc, mailboxUnread, mailboxLabels, calls,
                 body, content, auxVars>>

\* for email in unread_emails: email_id = email.get("id"); if not email_id: continue
\* and, after the loop, return results
LoopHead ==
  /\ pc = "loop"
  /\ IF unread_emails.kind = "str"
       THEN \* the loop takes a character of the error string: str has no get()
            /\ Raise(AttributeError)
            /\ UNCHANGED <<idx, email_id, ret>>
       ELSE IF idx = Len(unread_emails.items)
         THEN /\ ret' = ReturnList(results)
              /\ pc' = "done"
              /\ UNCHANGED <<idx, email_id, exc>>
         ELSE /\ idx' = idx + 1
              /\ email_id' = unread_emails.items[idx + 1]
              /\ pc' = IF unread_emails.items[idx + 1] = NoId THEN "loop" ELSE "fetch"
              /\ UNCHANGED <<ret, exc>>
  /\ UNCHANGED <<entry, unread_emails, email_content, response, label, label_response,
                 results, mailboxUnread, mailboxLabels, calls, body, content, auxVars>>

\* if not email_content: continue / if isinstance(email_content, str): continue
CheckContent ==
  /\ pc = "check_content"
  /\ pc' = IF email_content = "metadata" THEN "oracle" ELSE "loop"
  /\ UNCHANGED <<pipeVars, body, content, auxVars>>

\* what the history records of an oracle response: the label token of its
\* message.content, or why there is none
Answer(r) ==
  IF r.kind # "json" THEN r.kind
  ELSE IF ~r.message THEN "no_message"
  ELSE r.content

\* response = await self.send_to_ollama(ollama_api_url, email_content)
\* send_to_ollama catches every Exception and returns a dict
SendToOllama ==
  /\ pc = "oracle"
  /\ \E h \in HttpOutcomes :
       /\ http' = h
       /\ response' = send_to_ollama(h)
       /\ calls' = Append(calls, Call("oracle", email_id, Answer(send_to_ollama(h))))
  /\ pc' = "extract"
  /\ UNCHANGED <<entry, unread_emails, idx, email_id, email_content, label,
                 label_response, results, exc, ret, mailboxUnread, mailboxLabels,
                 body, content, mimeVars, toolVars>>

\* label = response.get("message", False).get("content", False);  if label:
ExtractLabel ==
  /\ pc = "extract"
  /\ IF response.message
       THEN /\ label' = response.content
            /\ pc' = IF Truthy(response.content) THEN "label_email" ELSE "append"
            /\ UNCHANGED exc
       ELSE \* False.get(...)
            /\ Raise(AttributeError)
            /\ UNCHANGED label
  /\ UNCHANGED <<entry, unread_emails, idx, email_id, email_content, response,
                 label_response, results, ret, mailboxUnread, mailboxLabels, calls,
                 body, content, auxVars>>

\* labelID = next((... if labeli.get('name') == label), None); if not labelID: ...
LabelFoundAlways(names, l) == TRUE
LabelFound(names, l) == l \in names

\* label_response = await self.label_email(email_id, label), up to the lookup
LabelEmail ==
  /\ pc = "label_email"
  /\ \/ \* labels().list() succeeded and has 'labels'
        IF LabelFound(MailboxLabels, label)
          THEN /\ calls' = Append(calls, Call("label_email", email_id, "match"))
               /\ pc' = "modify"
               /\ UNCHANGED <<label_response, exc>>
          ELSE /\ calls' = Append(calls, Call("label_email", email_id, "no_match"))
               /\ label_response' = LabelResponse("not_found", email_id, label)
               /\ pc' = "append"
               /\ UNCHANGED exc
     \/ \* 'labels' not in labelList
        /\ calls' = Append(calls, Call("label_email", email_id, "no_labels"))
        /\ label_response' = LabelResponse("no_labels", email_id, label)
        /\ pc' = "append"
        /\ UNCHANGED exc
     \/ \* except HttpError
        /\ calls' = Append(calls, Call("label_email", email_id, "http_error"))
        /\ label_response' = LabelResponse("http_error", email_id, label)
        /\ pc' = "append"
        /\ UNCHANGED exc
     \/ /\ calls' = Append(calls, Call("label_email", email_id, "exception"))
        /\ Raise(ClientError)
        /\ UNCHANGED label_response
  /\ UNCHANGED <<entry, unread_emails, idx, email_id, email_content, response, label,
                 results, ret, mailboxUnread, mailboxLabels, body, content, auxVars>>

\* messages().modify(userId, id=email_id, body={'addLabelIds': [labelID]}).execute()
Modify ==
  /\ pc = "modify"
  /\ \/ /\ calls' = Append(calls, Call("modify", email_id, "ok"))
        /\ mailboxLabels' = mailboxLabels \cup {<<email_id, label>>}
        /\ label_response' = LabelResponse("modified", email_id, label)
        /\ pc' = "append"
        /\ UNCHANGED exc
     \/ /\ calls' = Append(calls, Call("modify", email_id, "http_error"))
        /\ label_response' = LabelResponse("http_error", email_id, label)
        /\ pc' = "append"
        /\ UNCHANGED <<exc, mailboxLabels>>
     \/ /\ calls' = Append(calls, Call("modify", email_id, "exception"))
        /\ Raise(ClientError)
        /\ UNCHANGED <<label_response, mailboxLabels>>
  /\ UNCHANGED <<entry, unread_emails, idx, email_id, email_content, response, label,
                 results, ret, mailboxUnread, body, content, auxVars>>

Outcome(id, l, lr, r) ==
  [email_id |-> id, label |-> l, label_response |-> lr, ollama_response |-> r]

\* results.append({...})
PrependOutcome(rs, o) == <<o>> \o rs
AppendOutcome(rs, o) == Append(rs, o)

AppendResult ==
  /\ pc = "append"
  /\ entry = "triage"
  /\ IF label_response = Unbound
       THEN \* label_response was never assigned in this run
            /\ Raise(UnboundLocalError)
            /\ UNCHANGED results
       ELSE /\ results' = AppendOutcome(results,
                            Outcome(email_id, label, label_response, response))
            /\ pc' = "loop"
            /\ UNCHANGED exc
  /\ UNCHANGED <<entry, unread_emails, idx, email_id, email_content, response, label,
                 label_response, ret, mailboxUnread, mailboxLabels, calls, body, content, auxVars>>

\* which exceptions the invoked method's own handler catches:
\* process_and_label_emails has `except Exception`, read_email `except HttpError`
\* (an HttpError never reaches this point: the step that got it returned a string)
CatchesHttpErrorOnly(m, e) == e = "HttpError"
Catches(m, e) == m = "triage"

\* except Exception as e: ... return []
Except ==
  /\ pc = "except"
  /\ ret' = IF Catches(entry, exc) THEN ReturnList(<<>>) ELSE ReturnOther("raised")
  /\ pc' = "done"
  /\ UNCHANGED <<entry, unread_emails, idx, email_id, email_content, response, label,
                 label_response, results, exc, mailboxUnread, mailboxLabels, calls,
                 body, content, auxVars>>

\* --------------------------------------------------------- handle_call_tool

ValueError == "ValueError"
JSONDecodeError == "JSONDecodeError"

ToolNames ==
  {"label-email", "send-email", "get-unread-emails", "read-email", "open-email",
   "trash-email", "mark-email-as-read"}

\* a name the handler has no branch for
UnknownTool == "no-such-tool"

\* `if not v` for a value read from the arguments
NotStr(v) == v \in {None, ""}
NotIdNoneOnly(i) == i = NoneId
NotId(i) == i \in {NoneId, NoId}

StrArgs == {None, "", "x"}
IdArgs == {NoneId, NoId} \cup Ids

\* the arguments a caller may send with a tool name
ArgumentsOf(name) ==
  {NoArguments} \cup
    CASE name = "label-email" ->
           {Arguments(e, l, None, None, None) :
              e \in IdArgs, l \in {None, ""} \cup OracleLabels}
      [] name = "send-email" ->
           {Arguments(NoneId, None, r, sj, m) :
              r \in StrArgs, sj \in StrArgs, m \in StrArgs}
      [] name \in {"read-email", "open-email", "trash-email", "mark-email-as-read"} ->
           {Arguments(e, None, None, None, None) : e \in IdArgs}
      [] OTHER -> {Arguments(NoneId, None, None, None, None)}

\* the exception handle_call_tool raises before it calls the service, "none" if
\* the request passes: arguments.get on None, a falsy required value, no branch
Rejects(name, a) ==
  CASE name = "label-email" ->
         IF a.none THEN AttributeError
         ELSE IF NotStr(a.label) \/ NotId(a.email_id) THEN ValueError
         ELSE "none"
    [] name = "send-email" ->
         IF a.none THEN AttributeError
         ELSE IF NotStr(a.recipient_id) \/ NotStr(a.subject) \/ NotStr(a.message)
           THEN ValueError
         ELSE "none"
    [] name = "get-unread-emails" -> "none"
    [] name \in {"read-email", "open-email", "trash-email", "mark-email-as-read"} ->
         IF a.none THEN AttributeError
         ELSE IF NotId(a.email_id) THEN ValueError
         ELSE "none"
    [] OTHER -> ValueError

\* the service method each branch awaits
ServiceStep(name) ==
  CASE name = "label-email" -> "label_email"
    [] name = "send-email" -> "send"
    [] name = "get-unread-emails" -> "list_unread"
    [] name = "read-email" -> "fetch"
    [] name = "open-email" -> "open"
    [] name = "trash-email" -> "trash"
    [] name = "mark-email-as-read" -> "mark_tool"

\* handle_call_tool(name, arguments) up to its first await; calls restarts with
\* the invocation
HandleCallTool ==
  /\ pc \in {"idle", "done"}
  /\ entry # "triage"
  /\ tool.n < MaxToolCalls
  /\ \E name \in ToolNames \cup {UnknownTool} : \E a \in ArgumentsOf(name) :
       /\ tool' = [name |-> name, arguments |-> a, n |-> tool.n + 1]
       /\ IF Rejects(name, a) # "none"
            THEN /\ Raise(Rejects(name, a))
                 /\ entry' = "tool"
                 /\ email_id' = NoId
                 /\ label' = FalseLabel
            ELSE /\ exc' = "none"
                 /\ entry' = IF name = "read-email" THEN "read_email" ELSE "tool"
                 /\ email_id' = IF a.email_id = NoneId THEN NoId ELSE a.email_id
                 /\ label' = IF name = "label-email" THEN a.label ELSE FalseLabel
                 /\ pc' = ServiceStep(name)
  /\ calls' = <<>>
  /\ ret' = NoReturn
  /\ email_content' = "none"
  /\ label_response' = Unbound
  /\ UNCHANGED <<unread_emails, idx, response, results, mailboxUnread, mailboxLabels,
                 body, content, http, mimeVars, mailboxTrash, mailboxSent, marked>>

\* return [types.TextContent(type="text", text=...)]
ReturnText ==
  /\ ret' = ReturnOther("text")
  /\ pc' = "done"
  /\ UNCHANGED exc

\* label-email after label_email returned: json.loads(send_response), which fails
\* on the plain strings label_email returns, and ValueError when there is no id
LabelEmailReturn ==
  /\ pc = "append"
  /\ entry = "tool"
  /\ CASE label_response.kind = "modified" -> ReturnText
       [] label_response.kind = "not_found" -> Raise(ValueError) /\ UNCHANGED ret
       [] OTHER -> Raise(JSONDecodeError) /\ UNCHANGED ret
  /\ UNCHANGED <<entry, unread_emails, idx, email_id, email_content, response, label,
                 label_response, results, mailboxUnread, mailboxLabels, calls,
                 body, content, auxVars>>

\* send-email: gmail_service.send_email(recipient, subject, message_content)
SendEmail ==
  /\ pc = "send"
  /\ \E outcome \in {"ok", "http_error", "exception"} :
       /\ calls' = Append(calls, Call("send", NoId, outcome))
       /\ mailboxSent' = IF outcome = "ok" THEN mailboxSent + 1 ELSE mailboxSent
       /\ IF outcome = "exception"
            THEN Raise(ClientError) /\ UNCHANGED ret
            ELSE ReturnText
  /\ UNCHANGED <<entry, unread_emails, idx, email_id, email_content, response, label,
                 label_response, results, mailboxUnread, mailboxLabels,
                 body, content, http, mimeVars, tool, mailboxTrash, marked>>

\* get-unread-emails: gmail_service.get_unread_emails(), whose list or error string
\* goes into the text returned
GetUnreadTool ==
  /\ pc = "list_unread"
  /\ \E outcome \in {"ok", "http_error", "exception"} :
       /\ calls' = Append(calls, Call("list_unread", NoId, outcome))
       /\ IF outcome = "exception"
            THEN Raise(ClientError) /\ UNCHANGED ret
            ELSE ReturnText
  /\ UNCHANGED <<entry, unread_emails, idx, email_id, email_content, response, label,
                 label_response, results, mailboxUnread, mailboxLabels,
                 body, content, auxVars>>

\* open-email: gmail_service.open_email(email_id) opens a browser, no mailbox call
OpenEmail ==
  /\ pc = "open"
  /\ ReturnText
  /\ UNCHANGED <<entry, unread_emails, idx, email_id, email_content, response, label,
                 label_response, results, mailboxUnread, mailboxLabels, calls,
                 body, content, auxVars>>

\* trash-email: gmail_service.trash_email(email_id)
TrashEmail ==
  /\ pc = "trash"
  /\ \E outcome \in {"ok", "http_error", "exception"} :
       /\ calls' = Append(calls, Call("trash", email_id, outcome))
       /\ mailboxTrash' = IF outcome = "ok" THEN mailboxTrash \cup {email_id}
                                            ELSE mailboxTrash
       /\ IF outcome = "exception"
            THEN Raise(ClientError) /\ UNCHANGED ret
            ELSE ReturnText
  /\ UNCHANGED <<entry, unread_emails, idx, email_id, email_content, response, label,
                 label_response, results, mailboxUnread, mailboxLabels,
                 body, content, http, mimeVars, tool, mailboxSent, marked>>

\* mark-email-as-read: gmail_service.mark_email_as_read(email_id)
MarkEmailAsReadTool ==
  /\ pc = "mark_tool"
  /\ \E outcome \in MarkOutcomes :
       /\ mark_email_as_read(email_id, outcome)
       /\ IF outcome = "exception"
            THEN Raise(ClientError) /\ UNCHANGED ret
            ELSE ReturnText
  /\ UNCHANGED <<entry, unread_emails, idx, email_id, email_content, response, label,
                 label_response, results, mailboxLabels,
                 body, content, http, mimeVars, tool, mailboxTrash, mailboxSent>>

\* ------------------------------------------------------------ specification

Init ==
  /\ entry = "none"
  /\ pc = "idle"
  /\ unread_emails = NoUnread
  /\ idx = 0
  /\ email_id = NoId
  /\ email_content = "none"
  /\ response = NoResponse
  /\ label = FalseLabel
  /\ label_response = Unbound
  /\ results = <<>>
  /\ exc = "none"
  /\ ret = NoReturn
  /\ mailboxUnread = Ids
  /\ mailboxLabels = {}
  /\ calls = <<>>
  /\ body = NoBody
  /\ content = <<>>
  /\ http = NoHttp
  /\ mime_message = NoMessage
  /\ subject = NoSubject
  /\ tool = NoTool
  /\ mailboxTrash = {}
  /\ mailboxSent = 0
  /\ marked = [i \in Ids |-> 0]

Next ==
  \/ CallProcessAndLabel
  \/ CallReadEmail
  \/ GetUnread
  \/ CheckUnread
  \/ LoopHead
  \/ Fetch
  \/ Decode
  \/ MarkRead
  \/ ReadEmailReturn
  \/ CheckContent
  \/ SendToOllama
  \/ ExtractLabel
  \/ LabelEmail
  \/ Modify
  \/ AppendResult
  \/ Except

Spec == Init /\ [][Next]_vars

\* Body normalisation of read_email over every decoded body within the bound
InitBody ==
  /\ entry = "read_email"
  /\ pc = "body"
  /\ unread_emails = NoUnread
  /\ idx = 0
  /\ email_id \in Ids
  /\ email_content = "none"
  /\ response = NoResponse
  /\ label = FalseLabel
  /\ label_response = Unbound
  /\ results = <<>>
  /\ exc = "none"
  /\ ret = NoReturn
  /\ mailboxUnread = Ids
  /\ mailboxLabels = {}
  /\ calls = <<>>
  /\ body \in DecodedBodies
  /\ content = <<>>
  /\ http = NoHttp
  /\ mime_message = NoMessage
  /\ subject = NoSubject
  /\ tool = NoTool
  /\ mailboxTrash = {}
  /\ mailboxSent = 0
  /\ marked = [i \in Ids |-> 0]

NextBody == NormalizeBody

SpecBody == InitBody /\ [][NextBody]_vars

\* read_email from the point where the raw message has been fetched, in a direct
\* call and as the first message of a triage run, over every parsed message
InitRead ==
  /\ pc = "decode"
  /\ email_id \in Ids
  /\ \/ /\ entry = "read_email"
        /\ unread_emails = NoUnread
        /\ idx = 0
        /\ calls = <<Call("fetch", email_id, "ok")>>
     \/ /\ entry = "triage"
        /\ unread_emails = UnreadList(<<email_id>>)
        /\ idx = 1
        /\ calls = <<Call("list_unread", NoId, "ok"), Call("fetch", email_id, "ok")>>
  /\ email_content = "none"
  /\ response = NoResponse
  /\ label = FalseLabel
  /\ label_response = Unbound
  /\ results = <<>>
  /\ exc = "none"
  /\ ret = NoReturn
  /\ mailboxUnread = Ids
  /\ mailboxLabels = {}
  /\ body = NoBody
  /\ content = <<>>
  /\ http = NoHttp
  /\ mime_message = NoMessage
  /\ subject = NoSubject
  /\ tool = NoTool
  /\ mailboxTrash = {}
  /\ mailboxSent = 0
  /\ marked = [i \in Ids |-> 0]

NextRead ==
  \/ ParseMessage
  \/ ExtractBodyStep
  \/ NormalizeBody
  \/ DecodeSubject
  \/ MarkRead
  \/ ReadEmailReturn
  \/ CheckContent
  \/ SendToOllama
  \/ ExtractLabel
  \/ LabelEmail
  \/ Modify
  \/ AppendResult
  \/ LoopHead
  \/ Except

SpecRead == InitRead /\ [][NextRead]_vars

\* The program in either mode: one explicit() triage run, or a server session of
\* up to MaxToolCalls tool invocations
NextServer ==
  \/ CallProcessAndLabel
  \/ GetUnread
  \/ CheckUnread
  \/ LoopHead
  \/ Fetch
  \/ Decode
  \/ MarkRead
  \/ ReadEmailReturn
  \/ CheckContent
  \/ SendToOllama
  \/ ExtractLabel
  \/ LabelEmail
  \/ Modify
  \/ AppendResult
  \/ Except
  \/ HandleCallTool
  \/ LabelEmailReturn
  \/ SendEmail
  \/ GetUnreadTool
  \/ OpenEmail
  \/ TrashEmail
  \/ MarkEmailAsReadTool

SpecServer == Init /\ [][NextServer]_vars

\* ------------------------------------------------ history of a triage run

Triage == entry = "triage"
Done == pc = "done"

\* the history entries of one kind for one id
CallsOf(op, id) == {k \in DOMAIN calls : calls[k].op = op /\ calls[k].id = id}

\* position of an id in the page the mailbox client returned (0 if not in it)
Pos(id) ==
  IF \E i \in DOMAIN unread_emails.items : unread_emails.items[i] = id
    THEN CHOOSE i \in DOMAIN unread_emails.items : unread_emails.items[i] = id
    ELSE 0

\* the ids whose outcomes a result list holds, in order
IdsOf(rs) == [k \in DOMAIN rs |-> rs[k].email_id]

\* the ids that passed decode, in the order they did
RECURSIVE DecodedIdsFrom(_)
DecodedIdsFrom(k) ==
  IF k > Len(calls) THEN <<>>
  ELSE IF calls[k].op = "decode" /\ calls[k].res = "ok"
    THEN <<calls[k].id>> \o DecodedIdsFrom(k + 1)
    ELSE DecodedIdsFrom(k + 1)

OracleFailed(k) ==
  calls[k].op = "oracle" /\ calls[k].res \in {"status_error", "exception_error"}

\* every entry of the page after position p with an id has been fetched
RestFetched(p) ==
  \A i \in DOMAIN unread_emails.items :
    (i > p /\ unread_emails.items[i] # NoId)
      => CallsOf("fetch", unread_emails.items[i]) # {}

\* ------------------------------------------------------------------ claims

\* C1: when the oracle call for a message fails (non-200 status or transport
\* exception), the batch is not aborted: the finished run returns a list holding an
\* outcome for that message with an absent label, no label-apply call was made for
\* it, the message stays marked read, and every remaining unread id was processed.
C1_OracleFailureKeepsBatch ==
  (Triage /\ Done) =>
    \A k \in DOMAIN calls :
      OracleFailed(k) =>
        /\ ret.kind = "list"
        /\ \E j \in DOMAIN ret.value :
             /\ ret.value[j].email_id = calls[k].id
             /\ ret.value[j].label = FalseLabel
        /\ CallsOf("label_email", calls[k].id) = {}
        /\ (Call("mark_read", calls[k].id, "ok") \in {calls[j] : j \in DOMAIN calls}
              => calls[k].id \notin mailboxUnread)
        /\ RestFetched(Pos(calls[k].id))

\* no step of the run failed except, possibly, a fetch (with an HttpError) or a
\* decode: the listing and every mark-read succeeded, the oracle answered with the
\* name of a mailbox label, and every label lookup and label-apply succeeded
OnlyReadFailures ==
  \A k \in DOMAIN calls :
    /\ calls[k].op = "fetch" => calls[k].res \in {"ok", "http_error"}
    /\ calls[k].op \in {"list_unread", "mark_read", "modify"} => calls[k].res = "ok"
    /\ calls[k].op = "oracle" => calls[k].res \in MailboxLabels
    /\ calls[k].op = "label_email" => calls[k].res = "match"

\* C2: for every non-empty unread id list, the returned outcome list holds exactly
\* one outcome for each id whose fetch and decode succeeded, in order, and none for
\* an id whose fetch or decode failed: a fetch or decode failure of one id skips
\* only that id. Stated for the runs in which nothing but a fetch or a decode fails.
C2_OneOutcomePerDecodedId ==
  (Triage /\ Done /\ unread_emails.kind = "list" /\ unread_emails.items # <<>>
     /\ OnlyReadFailures) =>
    /\ ret.kind = "list"
    /\ IdsOf(ret.value) = DecodedIdsFrom(1)

\* C3: when an unexpected exception ends the run after k outcomes were appended,
\* the run returns those k outcomes.
C3_AbortReturnsAccumulated ==
  (Triage /\ Done /\ exc # "none") => ret = ReturnList(results)

\* C4: whatever failures are injected (listing, fetch, decode, mark-read, oracle,
\* label lookup, label apply), a triage run never stops before it returns, and what
\* it returns is a list: no exception reaches the caller.
C4_AlwaysReturnsList ==
  Triage =>
    /\ Done => ret.kind = "list"
    /\ ~Done => ENABLED Next

\* C4 witness: a run in which a step raised has returned a list.
C4_Witness ==
  Triage /\ Done /\ exc # "none" /\ ret.kind = "list" /\ Len(calls) > 1

\* C5: when the unread id list is empty the run returns [] at once: it never enters
\* the loop and makes no oracle, fetch, mark-read or label-apply call, so the
\* mailbox is as it was.
C5_EmptyUnreadReturnsAtOnce ==
  (Triage /\ unread_emails = UnreadList(<<>>)) =>
    /\ pc \in {"check_unread", "done"}
    /\ calls = <<Call("list_unread", NoId, "ok")>>
    /\ Done => ret = ReturnList(<<>>)
    /\ mailboxUnread = Ids /\ mailboxLabels = {}

\* C5 witness: a run over an empty unread list has returned.
C5_Witness ==
  Triage /\ Done /\ unread_emails = UnreadList(<<>>) /\ ret = ReturnList(<<>>)

\* the label token the oracle gave for the label_email call at history entry k
\* (the entry before it is that message's oracle call)
Labelled(k) == calls[k - 1].res

\* C6: label_email is invoked for a message if and only if the oracle returned a
\* non-empty, non-absent label string for it, and then once: every label_email call
\* directly follows an oracle answer carrying a label token for the same id, every
\* such answer is followed by the call, and an absent or empty label (or no answer)
\* leaves the message with zero label_email calls.
C6_LabelAppliedIffLabel ==
  Triage =>
    \A k \in DOMAIN calls :
      /\ calls[k].op = "label_email" =>
           /\ k > 1
           /\ calls[k - 1].op = "oracle"
           /\ calls[k - 1].id = calls[k].id
           /\ calls[k - 1].res \in OracleLabels
           /\ Cardinality(CallsOf("label_email", calls[k].id)) = 1
      /\ (calls[k].op = "oracle" /\ calls[k].res \in OracleLabels) =>
           IF k = Len(calls)
             THEN pc \in {"extract", "label_email"} /\ email_id = calls[k].id
             ELSE calls[k + 1].op = "label_email" /\ calls[k + 1].id = calls[k].id
      /\ (calls[k].op = "oracle" /\ calls[k].res \notin OracleLabels) =>
           CallsOf("label_email", calls[k].id) = {}

\* C6 witness: a finished run recorded one message with a label, for which
\* label_email was called, and one with an empty label, for which it was not.
C6_Witness ==
  /\ Triage /\ Done /\ Len(ret.value) = 2
  /\ ret.value[1].label \in OracleLabels
  /\ CallsOf("label_email", ret.value[1].email_id) # {}
  /\ ret.value[2].label = ""
  /\ CallsOf("label_email", ret.value[2].email_id) = {}

\* the label_email call at history entry k got the label listing and the label it
\* was given names none of the listed labels (the listing may hold no labels at all)
UnknownLabelAt(k) ==
  /\ calls[k].op = "label_email"
  /\ \/ calls[k].res \in {"match", "no_match"} /\ Labelled(k) \notin MailboxLabels
     \/ calls[k].res = "no_labels"

\* the string label_email returns when the lookup finds no label id: the JSON
\* {'error': 'true', 'message': "Label '...' not found."}, or "No labels found in
\* the account." for a listing without labels
ErrorMarker(k) ==
  LabelResponse(IF calls[k].res = "no_labels" THEN "no_labels" ELSE "not_found",
                calls[k].id, Labelled(k))

\* C7: when the oracle's label matches no mailbox label, label_email issues no
\* modify call for that message, nothing is raised by it, the message's outcome
\* records the error marker as label_response, and the loop goes on to the
\* remaining unread ids.
C7_UnknownLabelRecorded ==
  Triage =>
    \A k \in DOMAIN calls :
      UnknownLabelAt(k) =>
        LET id == calls[k].id IN
        /\ CallsOf("modify", id) = {}
        /\ IF k = Len(calls) /\ pc = "append"
             THEN /\ exc = "none"
                  /\ label_response = ErrorMarker(k)
             ELSE /\ \E j \in DOMAIN results :
                       /\ results[j].email_id = id
                       /\ results[j].label_response = ErrorMarker(k)
                  /\ IF k = Len(calls)
                       THEN /\ exc = "none"
                            /\ Done => (ret = ReturnList(results) /\ RestFetched(Pos(id)))
                       ELSE calls[k + 1].op = "fetch" /\ Pos(calls[k + 1].id) > Pos(id)

\* C7 witness: a run whose first message got a label unknown to the mailbox went
\* on to fetch the next message.
C7_Witness ==
  /\ Triage
  /\ \E k \in DOMAIN calls :
       /\ UnknownLabelAt(k)
       /\ calls[k].res = "no_match"
       /\ k < Len(calls)
       /\ calls[k + 1].op = "fetch"
  /\ Len(results) >= 1
  /\ results[1].label_response.kind = "not_found"

\* C8: a mark-read call is issued for an id only directly after that id's raw
\* message was fetched and decoded successfully, in a triage run and in a direct
\* read_email call alike; an id with no successful mark-read call (so every id
\* whose fetch or decode failed) still has its UNREAD state.
C8_MarkReadOnlyAfterDecode ==
  /\ \A k \in DOMAIN calls :
       calls[k].op = "mark_read" =>
         /\ k >= 3
         /\ calls[k - 1] = Call("decode", calls[k].id, "ok")
         /\ calls[k - 2] = Call("fetch", calls[k].id, "ok")
  /\ \A id \in Ids :
       (\A k \in CallsOf("mark_read", id) : calls[k].res # "ok") => id \in mailboxUnread
  /\ \A k \in DOMAIN calls :
       (calls[k].op \in {"fetch", "decode"} /\ calls[k].res # "ok")
         => calls[k].id \in mailboxUnread

\* C8 witness: a run marked one message read and then failed to decode the next,
\* which is still unread.
C8_Witness ==
  /\ Triage /\ Done
  /\ \E j, k \in DOMAIN calls :
       /\ j < k
       /\ calls[j].op = "mark_read" /\ calls[j].res = "ok"
       /\ calls[j].id \notin mailboxUnread
       /\ calls[k].op = "decode" /\ calls[k].res = "exception"
       /\ calls[k].id \in mailboxUnread

\* order of the steps made for one message
Rank(op) ==
  CASE op = "fetch" -> 1
    [] op = "decode" -> 2
    [] op = "mark_read" -> 3
    [] op = "oracle" -> 4
    [] op = "label_email" -> 5
    [] op = "modify" -> 6
    [] OTHER -> 0

\* C9: the side effects of a run are strictly sequential: after the listing, the
\* calls of the history are ordered by the position of their id in the page the
\* mailbox client returned and, for one id, run fetch, (decode,) mark-read, oracle,
\* label-apply, each at most once; the outcomes of the result list are in page order.
C9_SequentialOrder ==
  Triage =>
    /\ \A k \in DOMAIN calls : (calls[k].op = "list_unread") <=> (k = 1)
    /\ \A j, k \in DOMAIN calls :
         (1 < j /\ j < k) =>
           /\ Pos(calls[j].id) >= 1
           /\ \/ Pos(calls[j].id) < Pos(calls[k].id)
              \/ /\ calls[j].id = calls[k].id
                 /\ Rank(calls[j].op) < Rank(calls[k].op)
    /\ \A j, k \in DOMAIN results :
         j < k => (1 <= Pos(results[j].email_id)
                     /\ Pos(results[j].email_id) < Pos(results[k].email_id))
    /\ (Done /\ exc = "none") => ret = ReturnList(results)

\* C9 witness: a run over a page of two ids, not in ascending order, recorded both.
C9_Witness ==
  /\ Triage /\ Done
  /\ unread_emails.kind = "list"
  /\ Len(unread_emails.items) >= 2
  /\ unread_emails.items[1] > unread_emails.items[2]
  /\ IdsOf(ret.value) = <<unread_emails.items[1], unread_emails.items[2]>>
  /\ CallsOf("modify", unread_emails.items[1]) # {}
  /\ CallsOf("modify", unread_emails.items[2]) # {}

Min(a, b) == IF a < b THEN a ELSE b

\* the words of the content field are the first min(w, cap) words of the body
KeepsFirstWords ==
  LET words == Split(body.text)
  IN Split(content) = SubSeq(words, 1, Min(Len(words), WordCap))

C17_LabelResponseIsOwn ==
  Triage =>
    \A j \in DOMAIN results :
      IF CallsOf("label_email", results[j].email_id) # {}
        THEN results[j].label_response.id = results[j].email_id
        ELSE results[j].label_response = Unbound

\* C18: when the run returns, every id on which it successfully applied a label
\* has an outcome in the returned list.
C18_LabelledIdsReported ==
  (Triage /\ Done) =>
    \A p \in mailboxLabels :
      /\ ret.kind = "list"
      /\ \E j \in DOMAIN ret.value : ret.value[j].email_id = p[1]

\* the oracle request of the current message has just been answered
OracleAnswered ==
  /\ calls # <<>>
  /\ calls[Len(calls)].op = "oracle"

\* C14: send_to_ollama never raises (an exception after it is one its caller's
\* own statements raised): on a non-200 status or any exception of the exchange
\* it returns the error dict, which carries an error marker and no
\* message.content, and on status 200 it returns the oracle's (JSON) response body.
C14_OllamaNeverRaises ==
  (Triage /\ OracleAnswered) =>
    /\ pc = "except" => exc \in {AttributeError, UnboundLocalError}
    /\ (http.raised \/ http.status # 200) =>
         /\ response.kind \in {"status_error", "exception_error"}
         /\ ~response.message
         /\ response.content = FalseLabel
    /\ (~http.raised /\ http.status = 200 /\ http.body.kind = "json") =>
         response = http.body
    /\ response \in OracleResponses

\* C14 witness: the oracle answered with a non-200 status and a body that holds a
\* label, and send_to_ollama gave its caller the error dict.
C14_Witness ==
  /\ Triage /\ OracleAnswered
  /\ pc = "extract"
  /\ http = HttpResponse(500, JsonResponse(TRUE, "Review"))
  /\ response = ErrorResponse("status_error")

\* ---------------------------------------------- claims about message decoding

\* the text/plain parts of a multipart message, by position in walk()
PlainParts(m) == {i \in DOMAIN m.parts : m.parts[i].ctype = "text/plain"}

FirstPlainPart(m) ==
  m.parts[CHOOSE i \in PlainParts(m) : \A j \in PlainParts(m) : i <= j]

\* the message has plain text to extract
HasPlainText(m) ==
  IF m.multipart
    THEN \E i \in PlainParts(m) : m.parts[i].payload.text # <<>>
    ELSE m.payload.text # <<>>

\* no mark-read call raised
MarkReadReturned ==
  \A k \in DOMAIN calls : calls[k].op = "mark_read" => calls[k].res # "exception"

\* C11: for a multipart message the content is the decoded text (under the word
\* cap) of the first text/plain part found when walking the parts, and the
\* sentinel content is produced only for a message with no plain-text payload.
C11_FirstPlainTextPart ==
  pc = "body_done" =>
    /\ (mime_message.multipart /\ PlainParts(mime_message) # {}) =>
         content = Truncate(FirstPlainPart(mime_message).payload.text)
    /\ content = Sentinel => ~HasPlainText(mime_message)

\* some payload of the message is not valid UTF-8
HasInvalidPayload(m) ==
  IF m.multipart
    THEN \E i \in DOMAIN m.parts : ~m.parts[i].payload.utf8
    ELSE ~m.payload.utf8

\* C12: body text decoding never raises: for multipart and non-multipart messages
\* alike, when payload bytes are not valid UTF-8 read_email still returns a
\* message record (the subject being decodable and mark-read not raising).
C12_BodyDecodingNeverRaises ==
  (entry = "read_email" /\ Done /\ HasInvalidPayload(mime_message)
     /\ decode_mime_header(mime_message.subject).raised = "none"
     /\ MarkReadReturned) =>
    /\ exc = "none"
    /\ ret.kind = "metadata"

\* C13: when decoding the subject header fails, read_email does not abort the
\* message: the subject falls back to the raw header string, the message record
\* is returned, and a triage run goes on to classify the message (the body being
\* decodable and mark-read not raising).
C13_SubjectFallsBackToRaw ==
  (Done /\ decode_mime_header(mime_message.subject).raised # "none"
     /\ ExtractBody(mime_message).raised = "none"
     /\ MarkReadReturned) =>
    /\ subject = mime_message.subject.raw
    /\ entry = "read_email" => ret.kind = "metadata"
    /\ entry = "triage" => CallsOf("oracle", email_id) # {}

\* ------------------------------------------------- claims about tool calls

\* the mark-read call recorded at position k returned, with success or with the
\* text of an HttpError
MarkReturned(k) ==
  calls[k].op = "mark_read" /\ calls[k].res \in {"ok", "http_error"}

\* C15: mark-read is idempotent and non-corrupting: an id is unread in the mailbox
\* exactly when no mark-read was carried out for it, however many were; and
\* whether the mark-read call inside read_email returns success or an error,
\* read_email returns the decoded message record and a triage run goes on to
\* classify that id.
C15_MarkReadIdempotent ==
  /\ mailboxUnread = {i \in Ids : marked[i] = 0}
  /\ \A k \in DOMAIN calls :
       (entry \in {"read_email", "triage"} /\ MarkReturned(k)) =>
         IF k = Len(calls)
           THEN /\ email_content = "metadata"
                /\ pc \in {"read_return", "check_content", "oracle", "done"}
                /\ pc = "done" => (entry = "read_email" /\ ret.kind = "metadata")
           ELSE /\ entry = "triage"
                /\ calls[k + 1].op = "oracle"
                /\ calls[k + 1].id = calls[k].id

\* a read-email invocation returned the record of a message that an earlier
\* invocation had marked read already
C15_Witness ==
  /\ Done
  /\ entry = "read_email"
  /\ ret.kind = "metadata"
  /\ calls # <<>>
  /\ MarkReturned(Len(calls))
  /\ marked[email_id] = 2

\* the parameters each tool requires
Required(name) ==
  CASE name = "label-email" -> {"label", "email_id"}
    [] name = "send-email" -> {"recipient_id", "subject", "message"}
    [] name \in {"read-email", "open-email", "trash-email", "mark-email-as-read"} ->
         {"email_id"}
    [] OTHER -> {}

MissingOrEmpty(a, p) ==
  IF p = "email_id" THEN a.email_id \in {NoneId, NoId} ELSE a[p] \in {None, ""}

\* an invocation with an unknown tool name, or lacking a required parameter
BadRequest(t) ==
  /\ t.name # "none"
  /\ \/ t.name \notin ToolNames
     \/ \E p \in Required(t.name) : MissingOrEmpty(t.arguments, p)

mailbox == <<mailboxUnread, mailboxLabels, mailboxTrash, mailboxSent, marked>>

\* C16: a tool invocation in which a required parameter is missing or empty, or
\* whose tool name is unknown, fails with an error before any mailbox client call
\* is made: no step of it records a call or changes the mailbox, and it ends
\* raising.
C16_BadRequestFailsBeforeMailbox ==
  [][BadRequest(tool') =>
       /\ calls' = <<>>
       /\ UNCHANGED mailbox
       /\ pc' \in {"except", "done"}
       /\ exc' \in {ValueError, AttributeError}
       /\ pc' = "done" => ret'.kind = "raised"]_vars

\* an invocation with an empty email_id has failed, after an earlier invocation
\* had changed the mailbox
C16_Witness ==
  /\ Done
  /\ tool.name \in ToolNames
  /\ ~tool.arguments.none
  /\ tool.arguments.email_id = NoId
  /\ BadRequest(tool)
  /\ ret.kind = "raised"
  /\ tool.n = 2
  /\ mailboxUnread # Ids

====
